---- MODULE Spec2Model ----
(***************************************************************************)
(* Model of the two data-preparation scripts of the gowanus repository:    *)
(*   src/1_BID_data/generate_deckgl_data.py       (spatial join pipeline)  *)
(*   src/1_BID_data/generate_brooklyn_bids_table.py  (format_currency)     *)
(*                                                                         *)
(* Coordinates are numbers of units of 0.001 degree, so the 0.002 degree  *)
(* buffer of bounding_box is 2 units.  The quotient of point_in_ring is    *)
(* evaluated in floating-point arithmetic, one rounding per operation.     *)
(***************************************************************************)
EXTENDS Integers, Sequences, FiniteSets, TLC

VARIABLES
    pc,          \* position of the running script / of the function under call
    arg,         \* arguments of the function under call (unit specifications)
    ret,         \* its result
    boundaries,  \* main: insertion-ordered mapping name -> rings
    bbox,        \* main: result of bounding_box(boundaries)
    upstream,    \* the rows the PLUTO API holds for the query, in "$order": bbl order
    offset,      \* fetch_pluto: offset
    all_rows,    \* fetch_pluto: all_rows / main: raw_lots (as slices of upstream)
    requests,    \* every request sent so far, in order: its "$offset", and
                 \* whether the API answered it (ok) or it ended in an error
    parcels,     \* main: parcels
    output       \* DATA/gowanus_parcels.json: whether it was written, and its content

vars == <<pc, arg, ret, boundaries, bbox, upstream, offset, all_rows,
          requests, parcels, output>>

None == "None"
NoFile == [written |-> FALSE]

(***************************************************************************)
(* Step C: point-in-polygon (ray casting)                                  *)
(***************************************************************************)

\* j runs one behind i, starting at n - 1 (0-based); here indices are 1-based.
PrevIndex(i, n) == IF i = 1 THEN n ELSE i - 1

\* Python's `and` evaluates its right operand, the one holding the quotient
\* by (yj - yi), only when the left operand is true.
QuotientEvaluatedEager(lat, yi, yj) == TRUE

QuotientEvaluated(lat, yi, yj) == (yi > lat) # (yj > lat)

\* Python floats are binary floating-point numbers and every arithmetic
\* operation returns the representable number nearest to its exact result,
\* ties to the even significand.  The build has a significand of 53 bits;
\* here it has Precision bits (and no limit on the exponent within the
\* values used), so that the operands at which a result is rounded are small.
Precision == 5

\* The rational n / d, d > 0, with a power of two cancelled.
RECURSIVE Rat(_, _)
Rat(n, d) == IF d % 2 = 0 /\ n % 2 = 0 THEN Rat(n \div 2, d \div 2)
             ELSE [n |-> n, d |-> d]

\* The float nearest to n / d, d > 0: m * 2^e with 2^(Precision-1) <= m <= 2^Precision.
RoundToFloat(n, d) ==
    LET a == IF n < 0 THEN 0 - n ELSE n
    IN  IF a = 0 THEN Rat(0, 1)
        ELSE IF d = 1 /\ a < 2^Precision THEN Rat(n, 1)
        ELSE LET num(e) == IF e < 0 THEN a * 2^(0 - e) ELSE a
                 den(e) == IF e < 0 THEN d ELSE d * 2^e
                 e == CHOOSE x \in -16..16 :
                          /\ 2^(Precision - 1) * den(x) <= num(x)
                          /\ num(x) < 2^Precision * den(x)
                 f == num(e) \div den(e)
                 r == num(e) % den(e)
                 m == IF 2 * r > den(e) \/ (2 * r = den(e) /\ f % 2 = 1)
                      THEN f + 1 ELSE f
                 s == IF n < 0 THEN 0 - m ELSE m
             IN  IF e < 0 THEN Rat(s, 2^(0 - e)) ELSE Rat(s * 2^e, 1)

FloatSub(x, y) == RoundToFloat(x.n * y.d - y.n * x.d, x.d * y.d)
FloatAdd(x, y) == RoundToFloat(x.n * y.d + y.n * x.d, x.d * y.d)
FloatMul(x, y) == RoundToFloat(x.n * y.n, x.d * y.d)
\* x / y for y # 0
FloatDiv(x, y) == IF y.n > 0 THEN RoundToFloat(x.n * y.d, x.d * y.n)
                  ELSE RoundToFloat(0 - x.n * y.d, 0 - x.d * y.n)

\* lon < (xj - xi) * (lat - yi) / (yj - yi) + xi, for yj # yi: the right-hand
\* side evaluated left to right, one rounding per operation.
LonLeftOfEdge(lon, lat, xi, yi, xj, yj) ==
    LET F(v) == Rat(v, 1)
        q == FloatAdd(FloatDiv(FloatMul(FloatSub(F(xj), F(xi)),
                                        FloatSub(F(lat), F(yi))),
                               FloatSub(F(yj), F(yi))),
                      F(xi))
    IN  lon * q.d < q.n

\* The condition of the `if` in the loop body, for the edge ending at vertex i.
EdgeToggles(lon, lat, ring, i) ==
    LET j  == PrevIndex(i, Len(ring))
        xi == ring[i][1]
        yi == ring[i][2]
        xj == ring[j][1]
        yj == ring[j][2]
    IN  /\ (yi > lat) # (yj > lat)
        /\ LonLeftOfEdge(lon, lat, xi, yi, xj, yj)

\* TRUE iff some iteration evaluates the quotient with yj - yi = 0
\* (ZeroDivisionError).
point_in_ring_raises(lon, lat, ring) ==
    \E i \in 1..Len(ring) :
        LET j == PrevIndex(i, Len(ring))
        IN  /\ QuotientEvaluated(lat, ring[i][2], ring[j][2])
            /\ ring[j][2] - ring[i][2] = 0

RECURSIVE RayLoop(_, _, _, _, _)
RayLoop(lon, lat, ring, i, inside) ==
    IF i > Len(ring)
    THEN inside
    ELSE RayLoop(lon, lat, ring, i + 1,
                 IF EdgeToggles(lon, lat, ring, i) THEN ~inside ELSE inside)

RayLoopNoWrap(lon, lat, ring) ==
    LET n == Len(ring)
        Cross(i) == /\ (ring[i][2] > lat) # (ring[i - 1][2] > lat)
                    /\ LonLeftOfEdge(lon, lat, ring[i][1], ring[i][2],
                                     ring[i - 1][1], ring[i - 1][2])
    IN  Cardinality({i \in 2..n : Cross(i)}) % 2 = 1

point_in_ring(lon, lat, ring) == RayLoop(lon, lat, ring, 1, FALSE)

\* boundaries is the dict in insertion order: a sequence of [name, rings].
RECURSIVE FindFrom(_, _, _, _)
FindFrom(lon, lat, bs, k) ==
    IF k > Len(bs)
    THEN None
    ELSE IF \E r \in 1..Len(bs[k].rings) : point_in_ring(lon, lat, bs[k].rings[r])
         THEN bs[k].name
         ELSE FindFrom(lon, lat, bs, k + 1)

find_bid_last(lon, lat, bs) ==
    LET hits == {k \in 1..Len(bs) :
                    \E r \in 1..Len(bs[k].rings) :
                        point_in_ring(lon, lat, bs[k].rings[r])}
    IN  IF hits = {} THEN None
        ELSE bs[CHOOSE k \in hits : \A h \in hits : h <= k].name

find_bid(lon, lat, bs) == FindFrom(lon, lat, bs, 1)

(***************************************************************************)
(* Step A: bounding box of the boundary rings                              *)
(***************************************************************************)

\* A float accumulator: finite with value v, or an infinity.
Fin(x) == [fin |-> TRUE, v |-> x]
PosInf == [fin |-> FALSE, v |-> 1]
NegInf == [fin |-> FALSE, v |-> -1]

\* min(acc, x) and max(acc, x) for a finite x.
FMin(acc, x) == IF ~acc.fin THEN (IF acc.v > 0 THEN Fin(x) ELSE acc)
                ELSE IF x < acc.v THEN Fin(x) ELSE acc
FMax(acc, x) == IF ~acc.fin THEN (IF acc.v < 0 THEN Fin(x) ELSE acc)
                ELSE IF x > acc.v THEN Fin(x) ELSE acc

\* acc + d for a finite d: an infinity stays what it is.
FAdd(acc, d) == IF acc.fin THEN Fin(acc.v + d) ELSE acc

\* buf = 0.002 degree, in units of 0.001 degree.
buf == 2

\* The three nested loops visit every coordinate of every ring of every
\* boundary, in order.
RECURSIVE AllCoords(_, _, _)
AllCoords(bs, k, r) ==
    IF k > Len(bs) THEN << >>
    ELSE IF r > Len(bs[k].rings) THEN AllCoords(bs, k + 1, 1)
    ELSE bs[k].rings[r] \o AllCoords(bs, k, r + 1)

RECURSIVE BoxLoop(_, _, _)
BoxLoop(cs, i, acc) ==
    IF i > Len(cs) THEN acc
    ELSE BoxLoop(cs, i + 1,
                 [min_lon |-> FMin(acc.min_lon, cs[i][1]),
                  max_lon |-> FMax(acc.max_lon, cs[i][1]),
                  min_lat |-> FMin(acc.min_lat, cs[i][2]),
                  max_lat |-> FMax(acc.max_lat, cs[i][2])])

BoxStart == [min_lon |-> PosInf, min_lat |-> PosInf,
             max_lon |-> NegInf, max_lat |-> NegInf]

bounding_box_first_ring(bs) ==
    LET a == BoxLoop(bs[1].rings[1], 1, BoxStart)
    IN  <<FAdd(a.min_lon, -buf), FAdd(a.min_lat, -buf),
          FAdd(a.max_lon, buf), FAdd(a.max_lat, buf)>>

bounding_box_inward(bs) ==
    LET a == BoxLoop(AllCoords(bs, 1, 1), 1, BoxStart)
    IN  <<FAdd(a.min_lon, buf), FAdd(a.min_lat, buf),
          FAdd(a.max_lon, -buf), FAdd(a.max_lat, -buf)>>

bounding_box(bs) ==
    LET a == BoxLoop(AllCoords(bs, 1, 1), 1, BoxStart)
    IN  <<FAdd(a.min_lon, -buf), FAdd(a.min_lat, -buf),
          FAdd(a.max_lon, buf), FAdd(a.max_lat, buf)>>

\* fetch_pluto: the range predicates of where_clause on a row's coordinates,
\* "latitude >= min_lat AND latitude <= max_lat AND longitude >= min_lon
\* AND longitude <= max_lon", for bbox = (min_lon, min_lat, max_lon, max_lat).
AtLeast(x, acc) == IF acc.fin THEN x >= acc.v ELSE acc.v < 0
AtMost(x, acc) == IF acc.fin THEN x <= acc.v ELSE acc.v > 0

where_clause(lon, lat, box) ==
    /\ AtLeast(lat, box[2]) /\ AtMost(lat, box[4])
    /\ AtLeast(lon, box[1]) /\ AtMost(lon, box[3])

(***************************************************************************)
(* Inputs of the unit specifications                                       *)
(***************************************************************************)

MaxBids == 2
MaxRingLen == 3
RingGrid == 1
RectMax == 3

SqA == << <<0, 0>>, <<0, 4>>, <<4, 4>>, <<4, 0>> >>
SqB == << <<2, 2>>, <<2, 6>>, <<6, 6>>, <<6, 2>>, <<2, 2>> >>
SqC == << <<6, 0>>, <<8, 0>>, <<8, 2>>, <<6, 2>> >>
Seg == << <<0, 0>>, <<8, 6>> >>
Seg76 == << <<0, 0>>, <<7, 6>> >>

RingLists == { <<SqA>>, <<SqB>>, <<SqC, SqB>>, <<Seg>>, <<Seg76>> }
Names == {"A", "B", "C"}
QueryCoord == {-1, 1, 2, 3, 5, 7}

InjSeqs(S, n) == {s \in [1..n -> S] : \A i, j \in 1..n : i # j => s[i] # s[j]}

BoundarySets ==
    UNION {{[k \in 1..n |-> [name |-> ns[k], rings |-> rl[k]]] :
               ns \in InjSeqs(Names, n), rl \in [1..n -> RingLists]} :
           n \in 1..MaxBids}

\* A boundary set spanning longitudes [-74.0, -73.9], latitudes [40.6, 40.7].
SpanExample ==
    << [name  |-> "A",
        rings |-> << << <<0 - 74000, 40650>>, <<0 - 73950, 40700>>,
                        <<0 - 73990, 40690>> >>,
                     << <<0 - 73900, 40620>>, <<0 - 73960, 40600>>,
                        <<0 - 73920, 40610>> >> >>] >>

\* Every ring of up to MaxRingLen vertices with longitudes in 0..RingGrid and
\* latitudes in 0..1: the degenerate rings, and rings with horizontal edges.
GridRings ==
    UNION {[1..n -> (0..RingGrid) \X (0..1)] : n \in 0..MaxRingLen}

\* The axis-aligned rectangle [x1, x2] x [y1, y2] as a ring: starting at
\* corner s, clockwise or counter-clockwise, with or without the closing
\* repeat of the first vertex.
RectRing(x1, y1, x2, y2, s, ccw, closed) ==
    LET cw  == << <<x1, y1>>, <<x1, y2>>, <<x2, y2>>, <<x2, y1>> >>
        at(k) == cw[((IF ccw THEN s + 8 - k ELSE s + k) % 4) + 1]
        open == [k \in 1..4 |-> at(k)]
    IN  IF closed THEN Append(open, open[1]) ELSE open

RectCalls ==
    {[fn |-> "point_in_ring", lon |-> p[1], lat |-> p[2],
      ring |-> RectRing(x[1], y[1], x[2], y[2], s, o, c),
      rect |-> <<x[1], y[1], x[2], y[2]>>] :
        x \in {x \in (0..RectMax) \X (0..RectMax) : x[1] < x[2]},
        y \in {y \in (0..RectMax) \X (0..RectMax) : y[1] < y[2]},
        s \in 0..3, o \in BOOLEAN, c \in BOOLEAN,
        p \in (-1..RectMax + 1) \X (-1..RectMax + 1)}

GridCalls ==
    {[fn |-> "point_in_ring", lon |-> p[1], lat |-> p[2], ring |-> r,
      rect |-> << >>] :
        r \in GridRings, p \in (-1..RingGrid + 1) \X (-1..2)}

UnitSquare == << <<0, 0>>, <<0, 1>>, <<1, 1>>, <<1, 0>> >>

\* The unit square is probed at (0.5, 0.5) and (2, 2): the ring and the
\* points are scaled by 2 to stay on the integer grid.
UnitSquareCalls ==
    {[fn |-> "point_in_ring", lon |-> p[1], lat |-> p[2],
      ring |-> [k \in 1..4 |-> <<2 * UnitSquare[k][1], 2 * UnitSquare[k][2]>>],
      rect |-> <<0, 0, 2, 2>>] : p \in {<<1, 1>>, <<4, 4>>}}

FindBidCalls ==
    {[fn |-> "find_bid", lon |-> p[1], lat |-> p[2], boundaries |-> bs] :
        bs \in BoundarySets, p \in QueryCoord \X QueryCoord}

BoundingBoxCalls ==
    {[fn |-> "bounding_box", boundaries |-> bs] :
        bs \in BoundarySets \cup {SpanExample}}

Idle ==
    /\ boundaries = << >> /\ bbox = None
    /\ upstream = [head |-> << >>, n |-> 0]
    /\ offset = 0 /\ all_rows = << >> /\ requests = << >>
    /\ parcels = << >> /\ output = NoFile

UNCHANGED_main ==
    UNCHANGED <<boundaries, bbox, upstream, offset, all_rows,
                requests, parcels, output>>

(***************************************************************************)
(* point_in_ring under call                                                *)
(***************************************************************************)

InitRing ==
    /\ pc = "call"
    /\ arg \in RectCalls \cup GridCalls \cup UnitSquareCalls
    /\ ret = None
    /\ Idle

call_point_in_ring ==
    /\ pc = "call"
    /\ arg.fn = "point_in_ring"
    /\ ret' = IF point_in_ring_raises(arg.lon, arg.lat, arg.ring)
              THEN [raised |-> "ZeroDivisionError"]
              ELSE [raised |-> None,
                    value  |-> point_in_ring(arg.lon, arg.lat, arg.ring)]
    /\ pc' = "return"
    /\ UNCHANGED arg
    /\ UNCHANGED_main

NextRing == call_point_in_ring

SpecRing == InitRing /\ [][NextRing]_vars

(***************************************************************************)
(* find_bid and bounding_box under call                                    *)
(***************************************************************************)

InitBid ==
    /\ pc = "call"
    /\ arg \in FindBidCalls \cup BoundingBoxCalls
    /\ ret = None
    /\ Idle

call_find_bid ==
    /\ pc = "call"
    /\ arg.fn = "find_bid"
    /\ ret' = find_bid(arg.lon, arg.lat, arg.boundaries)
    /\ pc' = "return"
    /\ UNCHANGED arg
    /\ UNCHANGED_main

call_bounding_box ==
    /\ pc = "call"
    /\ arg.fn = "bounding_box"
    /\ ret' = bounding_box(arg.boundaries)
    /\ pc' = "return"
    /\ UNCHANGED arg
    /\ UNCHANGED_main

NextBid == call_find_bid \/ call_bounding_box

SpecBid == InitBid /\ [][NextBid]_vars

(***************************************************************************)
(* point_in_ring and find_bid under call, on rings of fewer than three     *)
(* vertices                                                                *)
(***************************************************************************)

DegenerateVertices == {0, 7} \X {0, 6, 7}
DegenerateRings == UNION {[1..n -> DegenerateVertices] : n \in 0..2}
DegenerateQueries == (0..7) \X (0..7)

DegenerateRingCalls ==
    {[fn |-> "point_in_ring", lon |-> p[1], lat |-> p[2], ring |-> r,
      rect |-> << >>] : r \in DegenerateRings, p \in DegenerateQueries}

\* One boundary whose only ring is degenerate, alone or ahead of a square.
DegenerateBidCalls ==
    {[fn |-> "find_bid", lon |-> p[1], lat |-> p[2],
      boundaries |-> <<[name |-> "A", rings |-> <<r>>]>> \o rest] :
        r \in DegenerateRings, p \in DegenerateQueries,
        rest \in {<< >>, <<[name |-> "B", rings |-> <<SqB>>]>>}}

InitDegenerate ==
    /\ pc = "call"
    /\ arg \in DegenerateRingCalls \cup DegenerateBidCalls
    /\ ret = None
    /\ Idle

NextDegenerate == call_point_in_ring \/ call_find_bid

SpecDegenerate == InitDegenerate /\ [][NextDegenerate]_vars

(***************************************************************************)
(* Step B: fetch_pluto, one iteration of its `while True` loop per step    *)
(*                                                                         *)
(* The rows the API holds for the query are upstream.head, given row by    *)
(* row, followed by lots without a location (both coordinates 0) up to     *)
(* upstream.n rows in all.  A page is a slice [from, to] of these rows,    *)
(* and all_rows is kept as the sequence of the slices it was extended      *)
(* with: the list itself is RowsOf(upstream, all_rows).                    *)
(***************************************************************************)

PAGE_SIZE == 50000

Min2(a, b) == IF a < b THEN a ELSE b

\* A JSON field of a row: a numeric string, a non-numeric string, null, or
\* the key is absent.
Num(v) == [t |-> "num", v |-> v]
Text == [t |-> "text", v |-> 0]
Null == [t |-> "null", v |-> 0]
Absent == [t |-> "absent", v |-> 0]

RowAt(u, i) ==
    IF i <= Len(u.head) THEN u.head[i]
    ELSE [bbl |-> i, longitude |-> Num(0), latitude |-> Num(0)]

\* What the API answers to "$limit": limit, "$offset": off, in "$order": bbl
\* order.
Page(u, off, limit) == [from |-> off + 1, to |-> Min2(off + limit, u.n)]

\* len(batch)
BatchLen(batch) == IF batch.to < batch.from THEN 0 ELSE batch.to - batch.from + 1

RECURSIVE RowsFrom(_, _, _)
RowsFrom(u, slices, k) ==
    IF k > Len(slices) THEN << >>
    ELSE [i \in 1..BatchLen(slices[k]) |-> RowAt(u, slices[k].from + i - 1)]
         \o RowsFrom(u, slices, k + 1)

RowsOf(u, slices) == RowsFrom(u, slices, 1)

\* if len(batch) < PAGE_SIZE: break
LastPageInclusive(batch) == BatchLen(batch) <= PAGE_SIZE

LastPage(batch) == BatchLen(batch) < PAGE_SIZE

\* The request succeeds: resp.json() is the page at the current offset.
FetchPage ==
    /\ pc = "fetch"
    /\ LET batch == Page(upstream, offset, PAGE_SIZE)
       IN  /\ requests' = Append(requests, [offset |-> offset, ok |-> TRUE])
           /\ IF BatchLen(batch) = 0
              THEN /\ pc' = "filter"
                   /\ UNCHANGED <<all_rows, offset>>
              ELSE /\ all_rows' = Append(all_rows, batch)
                   /\ IF LastPage(batch)
                      THEN pc' = "filter" /\ UNCHANGED offset
                      ELSE pc' = "fetch" /\ offset' = offset + PAGE_SIZE
    /\ UNCHANGED <<arg, ret, boundaries, bbox, upstream, parcels, output>>

FetchFailBreak ==
    /\ pc = "fetch"
    /\ requests' = Append(requests, [offset |-> offset, ok |-> FALSE])
    /\ pc' = "filter"
    /\ UNCHANGED <<arg, ret, boundaries, bbox, upstream, offset, all_rows,
                   parcels, output>>

\* requests.get raises (transport error, timeout) or raise_for_status raises
\* (HTTP error): nothing catches it, the script ends with the traceback.
FetchFail ==
    /\ pc = "fetch"
    /\ requests' = Append(requests, [offset |-> offset, ok |-> FALSE])
    /\ pc' = "aborted"
    /\ UNCHANGED <<arg, ret, boundaries, bbox, upstream, offset, all_rows,
                   parcels, output>>

(***************************************************************************)
(* main                                                                    *)
(***************************************************************************)

\* row.get(key, 0)
Get0(field) == IF field.t = "absent" THEN Num(0) ELSE field

\* float(x): ValueError on a non-numeric string, TypeError on None.
FloatRaises(x) == x.t \in {"text", "null"}

CoordsRaiseBoth(row) ==
    /\ FloatRaises(Get0(row.longitude))
    /\ FloatRaises(Get0(row.latitude))

\* The try block holds both conversions: either one raising leaves it.
CoordsRaise(row) ==
    \/ FloatRaises(Get0(row.longitude))
    \/ FloatRaises(Get0(row.latitude))

\* Which way one iteration of the `for row in raw_lots` loop goes.
RowOutcome(row, bs) ==
    IF CoordsRaise(row) THEN "continue: except"
    ELSE LET lon == Get0(row.longitude).v
             lat == Get0(row.latitude).v
         IN  IF lon = 0 \/ lat = 0 THEN "continue: zero"
             ELSE IF find_bid(lon, lat, bs) = None THEN "continue: no bid"
             ELSE "append"

ParcelOf(row, bs) ==
    [lat      |-> Get0(row.latitude).v,
     lon      |-> Get0(row.longitude).v,
     bbl      |-> row.bbl,
     bid_name |-> find_bid(Get0(row.longitude).v, Get0(row.latitude).v, bs)]

SpatialJoinKeepAll(rows, bs) ==
    LET kept == SelectSeq(rows, LAMBDA row :
                    RowOutcome(row, bs) \in {"append", "continue: no bid"})
    IN  [k \in 1..Len(kept) |-> ParcelOf(kept[k], bs)]

\* The parcels list after the loop: one record per row that reached append,
\* in the order of raw_lots.
SpatialJoin(rows, bs) ==
    LET kept == SelectSeq(rows, LAMBDA row : RowOutcome(row, bs) = "append")
    IN  [k \in 1..Len(kept) |-> ParcelOf(kept[k], bs)]

\* One MultiPolygon feature per boundary; each ring becomes a polygon.
build_geojson_boundaries(bs) ==
    [k \in 1..Len(bs) |->
        [name        |-> bs[k].name,
         coordinates |-> [r \in 1..Len(bs[k].rings) |-> <<bs[k].rings[r]>>]]]

ComputeBBox ==
    /\ pc = "bbox"
    /\ bbox' = bounding_box(boundaries)
    /\ pc' = "fetch"
    /\ UNCHANGED <<arg, ret, boundaries, upstream, offset, all_rows, requests,
                   parcels, output>>

\* Step C, the whole `for row in raw_lots` loop.
SpatialFilter ==
    /\ pc = "filter"
    /\ parcels' = SpatialJoin(RowsOf(upstream, all_rows), boundaries)
    /\ pc' = "export"
    /\ UNCHANGED <<arg, ret, boundaries, bbox, upstream, offset, all_rows,
                   requests, output>>

\* Step D: json.dump of parcels and the boundary features to OUTPUT.
Export ==
    /\ pc = "export"
    /\ output' = [written        |-> TRUE,
                  parcels        |-> parcels,
                  bid_boundaries |-> build_geojson_boundaries(boundaries)]
    /\ pc' = "done"
    /\ UNCHANGED <<arg, ret, boundaries, bbox, upstream, offset, all_rows,
                   requests, parcels>>

Next == ComputeBBox \/ FetchPage \/ FetchFail \/ SpatialFilter \/ Export

MaxRows == 3

\* (longitude, latitude) of a row: inside SqA only, inside SqB only, inside
\* both, inside SqC only, outside all; a zero, a non-numeric, a null or an
\* absent coordinate.
RowCoords ==
    { <<Num(1), Num(1)>>, <<Num(5), Num(5)>>, <<Num(3), Num(3)>>,
      <<Num(7), Num(1)>>, <<Num(7), Num(7)>>,
      <<Num(0), Num(3)>>, <<Text, Num(3)>>, <<Num(3), Null>>,
      <<Absent, Num(7)>> }

RowSeqs ==
    UNION {{[i \in 1..n |-> [bbl |-> i, longitude |-> f[i][1],
                             latitude |-> f[i][2]]] :
               f \in [1..n -> RowCoords]} : n \in 0..MaxRows}

MainBoundaries ==
    { << [name |-> "A", rings |-> <<SqA>>], [name |-> "B", rings |-> <<SqB>>] >>,
      << [name |-> "B", rings |-> <<SqC, SqB>>], [name |-> "A", rings |-> <<SqA>>] >>,
      << [name |-> "C", rings |-> <<SqC>>] >> }

MainStart ==
    /\ pc = "bbox" /\ arg = None /\ ret = None
    /\ bbox = None /\ offset = 0 /\ all_rows = << >> /\ requests = << >>
    /\ parcels = << >> /\ output = NoFile

Init ==
    /\ MainStart
    /\ boundaries \in MainBoundaries
    /\ \E rows \in RowSeqs : upstream = [head |-> rows, n |-> Len(rows)]

Spec == Init /\ [][Next]_vars

\* Upstreams of up to MaxPages full pages, give or take Slack rows, and the
\* 120001 rows of the pagination example.
MaxPages == 2
Slack == 1

RowCounts ==
    {n \in {k * PAGE_SIZE + d : k \in 0..MaxPages, d \in (0 - Slack)..Slack} :
        n >= 0} \cup {120001}

HeadRows ==
    { << >>,
      << [bbl |-> 1, longitude |-> Num(1), latitude |-> Num(1)],
         [bbl |-> 2, longitude |-> Num(7), latitude |-> Num(7)] >> }

InitFetch ==
    /\ MainStart
    /\ boundaries = << [name |-> "A", rings |-> <<SqA>>],
                       [name |-> "B", rings |-> <<SqB>>] >>
    /\ \E n \in RowCounts, rows \in HeadRows :
          /\ Len(rows) <= n
          /\ upstream = [head |-> rows, n |-> n]

SpecFetch == InitFetch /\ [][Next]_vars

(***************************************************************************)
(* The body of the `for row in raw_lots` loop under call                   *)
(***************************************************************************)

FieldValues == {Num(1), Num(3), Num(5), Num(7), Num(0), Text, Null, Absent}

InitRow ==
    /\ pc = "call"
    /\ \E lon \in FieldValues, lat \in FieldValues, bs \in MainBoundaries :
          arg = [fn |-> "row",
                 row |-> [bbl |-> 1, longitude |-> lon, latitude |-> lat],
                 boundaries |-> bs]
    /\ ret = None
    /\ Idle

call_loop_body ==
    /\ pc = "call"
    /\ arg.fn = "row"
    /\ ret' = [outcome  |-> RowOutcome(arg.row, arg.boundaries),
               appended |-> SpatialJoin(<<arg.row>>, arg.boundaries)]
    /\ pc' = "return"
    /\ UNCHANGED arg
    /\ UNCHANGED_main

NextRow == call_loop_body

SpecRow == InitRow /\ [][NextRow]_vars

(***************************************************************************)
(* Step A: parse_wkt_multipolygon.  A text is a sequence of characters.    *)
(***************************************************************************)

IsSpace(c) == c \in {" ", "\t", "\n"}

\* str.strip()
Strip(s) ==
    LET solid == {i \in 1..Len(s) : ~IsSpace(s[i])}
    IN  IF solid = {} THEN << >>
        ELSE SubSeq(s, CHOOSE i \in solid : \A j \in solid : i <= j,
                       CHOOSE i \in solid : \A j \in solid : i >= j)

KEYWORD == <<"M", "U", "L", "T", "I", "P", "O", "L", "Y", "G", "O", "N">>

\* str.upper(), on the letters of the keyword
Upper(c) ==
    CASE c = "m" -> "M" [] c = "u" -> "U" [] c = "l" -> "L" [] c = "t" -> "T"
      [] c = "i" -> "I" [] c = "p" -> "P" [] c = "o" -> "O" [] c = "y" -> "Y"
      [] c = "g" -> "G" [] c = "n" -> "N" [] OTHER -> c

\* inner.upper().startswith("MULTIPOLYGON")
StartsWithKeyword(s) ==
    /\ Len(s) >= Len(KEYWORD)
    /\ \A i \in 1..Len(KEYWORD) : Upper(s[i]) = KEYWORD[i]

\* The elements of a set of indices, in increasing order.
Ascending(S) ==
    [k \in 1..Cardinality(S) |->
        CHOOSE x \in S : Cardinality({y \in S : y < x}) = k - 1]

\* depth after the scan has read s[1..i]: += 1 on "(", -= 1 on ")".
DepthAfter(s, i) ==
    Cardinality({j \in 1..i : s[j] = "("}) - Cardinality({j \in 1..i : s[j] = ")"})

\* The top-level parenthesised groups of s, parentheses included.  The scan
\* sets start at a "(" read at depth 0 and cuts a group at a ")" that
\* brings the depth back to 0 while start is set; start is then None again.
Groups(s) ==
    LET opens  == {j \in 1..Len(s) : s[j] = "(" /\ DepthAfter(s, j - 1) = 0}
        closes == {i \in 1..Len(s) : s[i] = ")" /\ DepthAfter(s, i) = 0}
        start(i) == LET before == {j \in opens : j < i}
                    IN  IF before = {} THEN 0
                        ELSE CHOOSE j \in before : \A h \in before : h <= j
        cuts   == {i \in closes :
                      /\ start(i) # 0
                      /\ ~\E c \in closes : start(i) < c /\ c < i}
        order  == Ascending(cuts)
    IN  [k \in 1..Len(order) |-> SubSeq(s, start(order[k]), order[k])]

\* str.split(sep): the pieces between the separators, empty ones included.
Split(s, sep) ==
    LET at == Ascending({i \in 1..Len(s) : s[i] = sep})
    IN  [k \in 1..Len(at) + 1 |->
            SubSeq(s, IF k = 1 THEN 1 ELSE at[k - 1] + 1,
                      IF k = Len(at) + 1 THEN Len(s) ELSE at[k] - 1)]

\* str.split(): the maximal runs of non-whitespace characters.
Words(s) ==
    LET first == Ascending({i \in 1..Len(s) :
                     ~IsSpace(s[i]) /\ (i = 1 \/ IsSpace(s[i - 1]))})
        last  == Ascending({i \in 1..Len(s) :
                     ~IsSpace(s[i]) /\ (i = Len(s) \/ IsSpace(s[i + 1]))})
    IN  [k \in 1..Len(first) |-> SubSeq(s, first[k], last[k])]

Digits == <<"0", "1", "2", "3", "4", "5", "6", "7", "8", "9">>
IsDigit(c) == \E d \in 1..10 : Digits[d] = c
DigitValue(c) == (CHOOSE d \in 1..10 : Digits[d] = c) - 1

RECURSIVE Decimal(_, _)
Decimal(ds, acc) ==
    IF ds = << >> THEN acc ELSE Decimal(Tail(ds), 10 * acc + DigitValue(Head(ds)))

\* float(token), for decimal literals [+-]digits[.digits] of at most three
\* decimals, in units of 0.001; anything else in the inputs used here is no
\* number and raises ValueError.
Float(token) ==
    LET signed == token # << >> /\ token[1] \in {"-", "+"}
        body   == IF signed THEN Tail(token) ELSE token
        dots   == {i \in 1..Len(body) : body[i] = "."}
        dot    == IF dots = {} THEN Len(body) + 1 ELSE CHOOSE i \in dots : TRUE
        whole  == SubSeq(body, 1, dot - 1)
        frac   == SubSeq(body, dot + 1, Len(body))
        ok     == /\ Cardinality(dots) <= 1
                  /\ Len(whole) + Len(frac) >= 1
                  /\ Len(frac) <= 3
                  /\ \A i \in 1..Len(body) : i # dot => IsDigit(body[i])
        pad    == [i \in 1..3 |-> IF i <= Len(frac) THEN frac[i] ELSE "0"]
        mag    == 1000 * Decimal(whole, 0) + Decimal(pad, 0)
    IN  IF ~ok THEN [raised |-> "ValueError", v |-> 0]
        ELSE [raised |-> None,
              v |-> IF signed /\ token[1] = "-" THEN 0 - mag ELSE mag]

\* The loop over ring_str.split(","): the coordinate pairs of the pieces
\* with at least two tokens; raised is set once a conversion raises.
RECURSIVE CoordsFrom(_, _)
CoordsFrom(pieces, k) ==
    IF k > Len(pieces) THEN [raised |-> None, coords |-> << >>]
    ELSE LET parts == Words(Strip(pieces[k]))
             rest  == CoordsFrom(pieces, k + 1)
         IN  IF Len(parts) >= 2
             THEN IF Float(parts[1]).raised # None \/ Float(parts[2]).raised # None
                  THEN [raised |-> "ValueError", coords |-> << >>]
                  ELSE IF rest.raised # None THEN rest
                  ELSE [raised |-> None,
                        coords |-> << <<Float(parts[1]).v, Float(parts[2]).v>> >>
                                   \o rest.coords]
             ELSE rest

\* poly_block stripped of its outer parentheses.
PolyInner(poly_block) ==
    LET b1 == Strip(poly_block)
        b2 == IF b1 # << >> /\ b1[1] = "(" THEN Tail(b1) ELSE b1
    IN  IF b2 # << >> /\ b2[Len(b2)] = ")" THEN SubSeq(b2, 1, Len(b2) - 1) ELSE b2

RingTextsAll(poly_block) ==
    LET gs == Groups(PolyInner(poly_block))
    IN  [k \in 1..Len(gs) |-> SubSeq(gs[k], 2, Len(gs[k]) - 1)]

\* The ring texts the inner loop converts: that of the first ring group of
\* the block only, because of the `break`.
RingTexts(poly_block) ==
    LET gs == Groups(PolyInner(poly_block))
    IN  IF gs = << >> THEN << >> ELSE <<SubSeq(gs[1], 2, Len(gs[1]) - 1)>>

RECURSIVE RingsFrom(_, _)
RingsFrom(texts, k) ==
    IF k > Len(texts) THEN [raised |-> None, rings |-> << >>]
    ELSE LET c    == CoordsFrom(Split(texts[k], ","), 1)
             rest == RingsFrom(texts, k + 1)
         IN  IF c.raised # None THEN [raised |-> c.raised, rings |-> << >>]
             ELSE IF rest.raised # None THEN rest
             ELSE [raised |-> None,
                   rings  |-> (IF c.coords # << >> THEN <<c.coords>> ELSE << >>)
                              \o rest.rings]

RECURSIVE Flat(_)
Flat(ss) == IF ss = << >> THEN << >> ELSE Head(ss) \o Flat(Tail(ss))

parse_wkt_multipolygon(wkt) ==
    LET s0 == Strip(wkt)
        s1 == IF StartsWithKeyword(s0)
              THEN Strip(SubSeq(s0, Len(KEYWORD) + 1, Len(s0)))
              ELSE s0
        inner == IF s1 # << >> /\ s1[1] = "(" /\ s1[Len(s1)] = ")"
                 THEN Strip(SubSeq(s1, 2, Len(s1) - 1))
                 ELSE s1
        polygons == Groups(inner)
    IN  RingsFrom(Flat([k \in 1..Len(polygons) |-> RingTexts(polygons[k])]), 1)

(***************************************************************************)
(* parse_wkt_multipolygon under call                                       *)
(*                                                                         *)
(* The inputs are written out from a description: a multipolygon is a      *)
(* sequence of parts, a part a sequence of rings (the exterior ring first, *)
(* then the holes), a ring a sequence of coordinate pairs, a coordinate a   *)
(* literal with the value it denotes.                                      *)
(***************************************************************************)

MaxParts == 2

Lit(txt, v) == [txt |-> txt, v |-> v]
LonW == Lit(<<"-", "7", "3", ".", "9", "8">>, 0 - 73980)
LonE == Lit(<<"-", "7", "3", ".", "9">>, 0 - 73900)
LatS == Lit(<<"4", "0", ".", "6", "7", "5">>, 40675)
LatN == Lit(<<"4", "1">>, 41000)

Outer3 == << <<LonW, LatS>>, <<LonE, LatS>>, <<LonE, LatN>> >>
Outer1 == << <<LonE, LatN>> >>
Hole2 == << <<LonW, LatN>>, <<LonW, LatS>> >>
Empty == << >>

PartSet ==
    { <<Outer3>>, <<Outer1>>, <<Outer3, Hole2>>, <<Outer1, Hole2, Outer3>>,
      <<Empty>>, <<Empty, Hole2>> }

WktInputs == UNION {[1..n -> PartSet] : n \in 1..MaxParts}

RECURSIVE Join(_, _)
Join(texts, sep) ==
    IF texts = << >> THEN << >>
    ELSE IF Len(texts) = 1 THEN texts[1]
    ELSE texts[1] \o sep \o Join(Tail(texts), sep)

\* Written compactly, "MULTIPOLYGON(((x y,x y),(x y)),((x y)))", or spaced,
\* " MultiPolygon ( ( ( x y , x  y ) ) ) ".
Write(parts, spaced) ==
    LET sp      == IF spaced THEN <<" ">> ELSE << >>
        comma   == sp \o <<",">> \o sp
        wrap(t) == <<"(">> \o sp \o t \o sp \o <<")">>
        pair(p) == Join([i \in 1..Len(p) |-> p[i].txt], <<" ">> \o sp)
        ring(r) == wrap(Join([i \in 1..Len(r) |-> pair(r[i])], comma))
        part(q) == wrap(Join([i \in 1..Len(q) |-> ring(q[i])], comma))
        kw      == IF spaced
                   THEN <<"M", "u", "l", "t", "i", "P", "o", "l", "y", "g", "o", "n">>
                   ELSE KEYWORD
    IN  sp \o kw \o sp \o wrap(Join([i \in 1..Len(parts) |-> part(parts[i])], comma))
        \o sp

\* The coordinate pairs a written ring denotes.
Denoted(r) == [i \in 1..Len(r) |-> <<r[i][1].v, r[i][2].v>>]

InitWkt ==
    /\ pc = "call"
    /\ \E parts \in WktInputs, spaced \in BOOLEAN :
          arg = [fn |-> "parse_wkt_multipolygon", parts |-> parts,
                 wkt |-> Write(parts, spaced)]
    /\ ret = None
    /\ Idle

call_parse_wkt_multipolygon ==
    /\ pc = "call"
    /\ arg.fn = "parse_wkt_multipolygon"
    /\ ret' = parse_wkt_multipolygon(arg.wkt)
    /\ pc' = "return"
    /\ UNCHANGED arg
    /\ UNCHANGED_main

NextWkt == call_parse_wkt_multipolygon

SpecWkt == InitWkt /\ [][NextWkt]_vars

(***************************************************************************)
(* parse_wkt_multipolygon under call, on texts with a malformed ring: a    *)
(* ring with no pair, a pair of one token only, a token that is no number. *)
(***************************************************************************)

LitX == Lit(<<"x">>, 0)
LitY == Lit(<<"y">>, 0)
NonNumbers == {LitX, LitY}

OneToken == << <<LonE>> >>
OneTokenThenPair == << <<LonW>>, <<LonE, LatN>> >>
NoNumber == << <<LitX, LitY>> >>
PairThenNoNumber == << <<LonE, LatN>>, <<LonW, LitY>> >>

MalformedPartSet ==
    { <<Empty>>, <<OneToken>>, <<OneTokenThenPair>>, <<NoNumber>>,
      <<PairThenNoNumber>>, <<OneToken, Hole2>> }

SoundPartSet == { <<Outer3>>, <<Outer1>> }

MalformedInputs ==
    {ps \in UNION {[1..n -> MalformedPartSet \cup SoundPartSet] : n \in 1..MaxParts} :
        \E k \in 1..Len(ps) : ps[k] \in MalformedPartSet}

InitWktMalformed ==
    /\ pc = "call"
    /\ \E parts \in MalformedInputs, spaced \in BOOLEAN :
          arg = [fn |-> "parse_wkt_multipolygon", parts |-> parts,
                 wkt |-> Write(parts, spaced)]
    /\ ret = None
    /\ Idle

SpecWktMalformed == InitWktMalformed /\ [][NextWkt]_vars

(***************************************************************************)
(* format_currency (generate_brooklyn_bids_table.py).  An amount is a      *)
(* number of cents, or NaN (the value is absent from the data).            *)
(***************************************************************************)

Amount(cents) == [nan |-> FALSE, cents |-> cents]
NaN == [nan |-> TRUE, cents |-> 0]

\* The em dash (U+2014) the first branch returns, written in ASCII.
DASH == "--"

RoundHalfUp(n, d) == (2 * n + d) \div (2 * d)

\* n / d rounded to the nearest integer, a tie to the even one: what the
\* format specs .0f and .1f do with a quotient that is exactly
\* representable.
RoundHalfEven(n, d) ==
    LET q == n \div d
        r == n % d
    IN  IF 2 * r < d THEN q
        ELSE IF 2 * r > d THEN q + 1
        ELSE IF q % 2 = 0 THEN q ELSE q + 1

\* f'{x:.0f}' of the quotient n / d
Fixed0(n, d) ==
    LET m == RoundHalfEven(n, d)
    IN  IF n < 0 THEN "-" \o ToString(0 - m) ELSE ToString(m)

\* val / 1000000 is a tie between two one-decimal numbers that no double
\* holds exactly (1.05, 1.15, ...; 1.25 and 1.75 are held exactly): the
\* double is a little above or a little below, and .1f rounds accordingly.
InexactTie(cents) == cents % 10000000 = 5000000 /\ cents % 25000000 # 0

\* The number of tenths f'{val/1000000:.1f}' shows; up says on which side
\* of an inexact tie the double lies.
Tenths(cents, up) ==
    IF InexactTie(cents)
    THEN (cents \div 10000000) + (IF up THEN 1 ELSE 0)
    ELSE RoundHalfEven(cents, 10000000)

format_currency(val, up) ==
    IF val.nan \/ val.cents = 0
    THEN [text |-> DASH, unit |-> "", shown |-> 0]
    ELSE IF val.cents >= 1000000 * 100
    THEN LET t == Tenths(val.cents, up)
         IN  [text  |-> "$" \o ToString(t \div 10) \o "." \o ToString(t % 10) \o "M",
              unit  |-> "M",
              shown |-> t]
    ELSE IF val.cents >= 1000 * 100
    THEN [text  |-> "$" \o Fixed0(val.cents, 100000) \o "K",
          unit  |-> "K",
          shown |-> RoundHalfEven(val.cents, 100000)]
    ELSE [text  |-> "$" \o Fixed0(val.cents, 100),
          unit  |-> "$",
          shown |-> RoundHalfEven(val.cents, 100)]

(***************************************************************************)
(* format_currency under call                                              *)
(***************************************************************************)

MaxHalfThousands == 8

\* Whole dollar amounts: the multiples of 500 up to MaxHalfThousands * 500
\* and their neighbours, the neighbourhoods of the two thresholds, and
\* millions with and without a tie in the first decimal.
DollarInputs ==
    {500 * k + d : k \in 0..MaxHalfThousands, d \in {-1, 0, 1}}
    \cup {0 - 5, 2, 12, 999, 999499, 999500, 999999, 1000000, 1000001,
          1049999, 1050000, 1250000, 1500000, 1750000, 1949999, 1950000,
          12345678}

CurrencyInputs ==
    {NaN} \cup {Amount(100 * v + c) : v \in DollarInputs, c \in {0, 50}}

InitCurrency ==
    /\ pc = "call"
    /\ \E val \in CurrencyInputs : arg = [fn |-> "format_currency", val |-> val]
    /\ ret = None
    /\ Idle

call_format_currency ==
    /\ pc = "call"
    /\ arg.fn = "format_currency"
    /\ \E up \in BOOLEAN : ret' = format_currency(arg.val, up)
    /\ pc' = "return"
    /\ UNCHANGED arg
    /\ UNCHANGED_main

NextCurrency == call_format_currency

SpecCurrency == InitCurrency /\ [][NextCurrency]_vars

(***************************************************************************)
(* Properties                                                              *)
(***************************************************************************)

Returned(fn) == pc = "return" /\ arg.fn = fn

\* The indices of the boundaries of bs with at least one ring containing
\* the point.
Containing(lon, lat, bs) ==
    {k \in 1..Len(bs) :
        \E r \in 1..Len(bs[k].rings) : point_in_ring(lon, lat, bs[k].rings[r])}

\* C1: find_bid returns the name of the first boundary, in the iteration
\* order of the mapping, that has at least one ring containing the point
\* (rings of one boundary are OR'd), and None when no boundary has one.
C1_FirstMatch ==
    Returned("find_bid") =>
        LET hits == Containing(arg.lon, arg.lat, arg.boundaries)
        IN  /\ hits = {} => ret = None
            /\ hits # {} =>
                 \E k \in hits : /\ \A h \in hits : k <= h
                                 /\ ret = arg.boundaries[k].name

\* Two boundaries contain the point; the one iterated first matches by its
\* second ring only, and its name is returned.
C1_Witness ==
    /\ Returned("find_bid")
    /\ Containing(arg.lon, arg.lat, arg.boundaries) = {1, 2}
    /\ Len(arg.boundaries[1].rings) = 2
    /\ ~point_in_ring(arg.lon, arg.lat, arg.boundaries[1].rings[1])
    /\ ret = arg.boundaries[1].name

CoordSet(bs) ==
    UNION {UNION {{bs[k].rings[r][i] : i \in 1..Len(bs[k].rings[r])} :
                     r \in 1..Len(bs[k].rings)} : k \in 1..Len(bs)}

Least(S) == CHOOSE x \in S : \A y \in S : x <= y
Greatest(S) == CHOOSE x \in S : \A y \in S : x >= y

C9_Rectangle ==
    (Returned("point_in_ring") /\ arg.rect # << >>) =>
        LET x1 == arg.rect[1]
            y1 == arg.rect[2]
            x2 == arg.rect[3]
            y2 == arg.rect[4]
        IN  /\ ret.raised = None
            /\ (x1 < arg.lon /\ arg.lon < x2 /\ y1 < arg.lat /\ arg.lat < y2)
                 => ret.value = TRUE
            /\ (arg.lon < x1 \/ arg.lon > x2 \/ arg.lat < y1 \/ arg.lat > y2)
                 => ret.value = FALSE

\* The unit square [(0,0),(0,1),(1,1),(1,0)] probed at (0.5, 0.5) answers
\* inside (coordinates doubled).
C9_Witness ==
    /\ Returned("point_in_ring")
    /\ arg.ring = << <<0, 0>>, <<0, 2>>, <<2, 2>>, <<2, 0>> >>
    /\ arg.lon = 1 /\ arg.lat = 1
    /\ ret = [raised |-> None, value |-> TRUE]

\* The same square probed at (2, 2) answers outside.
C9_WitnessOutside ==
    /\ Returned("point_in_ring")
    /\ arg.ring = << <<0, 0>>, <<0, 2>>, <<2, 2>>, <<2, 0>> >>
    /\ arg.lon = 4 /\ arg.lat = 4
    /\ ret = [raised |-> None, value |-> FALSE]

\* C10: point_in_ring never divides by zero: the quotient by (yj - yi) is
\* evaluated only for edges with yi # yj, so no call raises, whatever the
\* ring and the query point.
C10_NoDivisionByZero ==
    Returned("point_in_ring") =>
        /\ ret.raised = None
        /\ \A i \in 1..Len(arg.ring) :
              LET j == PrevIndex(i, Len(arg.ring))
              IN  QuotientEvaluated(arg.lat, arg.ring[i][2], arg.ring[j][2])
                    => arg.ring[i][2] # arg.ring[j][2]

\* A ring with a horizontal edge lying exactly at the query latitude was
\* probed and the call returned a value.
C10_Witness ==
    /\ Returned("point_in_ring")
    /\ Len(arg.ring) >= 3
    /\ \E i \in 1..Len(arg.ring) :
          LET j == PrevIndex(i, Len(arg.ring))
          IN  /\ arg.ring[i][2] = arg.lat /\ arg.ring[j][2] = arg.lat
              /\ arg.ring[i][1] # arg.ring[j][1]
    /\ ret.raised = None

FetchReturned == pc \in {"filter", "export", "done"}
Filtered == pc \in {"export", "done"}
raw_lots == RowsOf(upstream, all_rows)

Parseable(field) == field.t \in {"num", "absent"}
Unparseable(field) == field.t \in {"text", "null"}
\* An absent coordinate reads as the default 0.
IsZero(field) == field.t = "absent" \/ (field.t = "num" /\ field.v = 0)

\* The row's coordinates are accepted and its point lies inside a boundary.
Emitted(row, bs) ==
    /\ row.longitude.t = "num" /\ row.longitude.v # 0
    /\ row.latitude.t = "num" /\ row.latitude.v # 0
    /\ Containing(row.longitude.v, row.latitude.v, bs) # {}

\* C2: the exported parcels list holds exactly one record, in input order,
\* for each fetched row whose coordinates are accepted and whose point lies
\* inside at least one boundary, and none for any other row; every record's
\* bid_name is non-null and is find_bid of its (lon, lat).
C2_ParcelsExactlyTheMatches ==
    Filtered =>
        /\ {parcels[k].bbl : k \in 1..Len(parcels)}
             = {raw_lots[i].bbl : i \in {i \in 1..Len(raw_lots) :
                                           Emitted(raw_lots[i], boundaries)}}
        /\ \A k \in 1..Len(parcels) - 1 : parcels[k].bbl < parcels[k + 1].bbl
        /\ \A k \in 1..Len(parcels) :
              /\ parcels[k].bid_name # None
              /\ parcels[k].bid_name
                   = find_bid(parcels[k].lon, parcels[k].lat, boundaries)
              /\ \E i \in 1..Len(raw_lots) :
                    /\ raw_lots[i].bbl = parcels[k].bbl
                    /\ raw_lots[i].longitude = Num(parcels[k].lon)
                    /\ raw_lots[i].latitude = Num(parcels[k].lat)
        /\ pc = "done" =>
              /\ output.parcels = parcels
              /\ Len(output.bid_boundaries) = Len(boundaries)

\* Two boundaries A and B; three rows, the first inside A only, the second
\* inside B only, the third outside both: two parcels, A then B, and two
\* boundary features are written.
C2_Witness ==
    /\ pc = "done"
    /\ [k \in 1..Len(boundaries) |-> boundaries[k].name] = <<"A", "B">>
    /\ [i \in 1..Len(raw_lots) |-> <<raw_lots[i].longitude, raw_lots[i].latitude>>]
         = << <<Num(1), Num(1)>>, <<Num(5), Num(5)>>, <<Num(7), Num(7)>> >>
    /\ [k \in 1..Len(output.parcels) |-> output.parcels[k].bid_name] = <<"A", "B">>
    /\ Len(output.bid_boundaries) = 2

\* The slices of all_rows, laid end to end, are the rows 1..n once each and
\* in order.
Tiles(slices, n) ==
    /\ \A k \in 1..Len(slices) :
          /\ slices[k].from <= slices[k].to
          /\ slices[k].from = (IF k = 1 THEN 1 ELSE slices[k - 1].to + 1)
    /\ (IF slices = << >> THEN 0 ELSE slices[Len(slices)].to) = n

\* C3: against an upstream of N rows that answers every request,
\* fetch_pluto requests the offsets 0, PAGE_SIZE, 2*PAGE_SIZE, ... in
\* increasing order, stops after the first page of fewer than PAGE_SIZE rows
\* (zero rows included) and returns exactly the N rows, each once and in
\* upstream order; for N = 120001 that takes exactly 3 requests.
C3_Pagination ==
    /\ \A k \in 1..Len(requests) : requests[k].offset = (k - 1) * 50000
    /\ FetchReturned =>
          /\ Tiles(all_rows, upstream.n)
          /\ upstream.n <= 3 =>
                raw_lots = [i \in 1..upstream.n |-> RowAt(upstream, i)]
          /\ upstream.n - requests[Len(requests)].offset < 50000
          /\ \A k \in 1..Len(requests) - 1 :
                upstream.n - requests[k].offset >= 50000
          /\ upstream.n = 120001 => Len(requests) = 3

C3_Witness ==
    /\ pc = "filter"
    /\ upstream.n = 120001
    /\ [k \in 1..Len(requests) |-> requests[k].offset] = <<0, 50000, 100000>>
    /\ all_rows = << [from |-> 1, to |-> 50000], [from |-> 50001, to |-> 100000],
                     [from |-> 100001, to |-> 120001] >>

\* A full last page is followed by one more request, which returns no rows.
C3_WitnessEmptyPage ==
    /\ pc = "filter"
    /\ upstream.n = 100000
    /\ Len(requests) = 3

\* C4: a failing page request ends the run at that request: it is the last
\* request ever sent (none after it, none repeated), and the output file is
\* never written; the file is written only after every page was fetched
\* successfully.
C4_AbortOnFailure ==
    /\ \A k \in 1..Len(requests) :
          ~requests[k].ok => (k = Len(requests) /\ pc = "aborted")
    /\ \A k \in 1..Len(requests) - 1 :
          requests[k].offset < requests[k + 1].offset
    /\ pc = "aborted" => (output = NoFile /\ parcels = << >>)
    /\ output.written =>
          /\ \A k \in 1..Len(requests) : requests[k].ok
          /\ Tiles(all_rows, upstream.n)

\* The second request failed after a full first page had been accumulated.
C4_Witness ==
    /\ pc = "aborted"
    /\ Len(requests) = 2 /\ ~requests[2].ok
    /\ all_rows = << [from |-> 1, to |-> 50000] >>
    /\ output = NoFile

\* C6 as stated: a row is rejected on coordinate grounds only if both
\* coordinates are unparseable or either coordinate is exactly zero.
C6_RejectOnlyIfBothUnparseable ==
    Returned("row") =>
        (ret.outcome \in {"continue: except", "continue: zero"} =>
            \/ (Unparseable(arg.row.longitude) /\ Unparseable(arg.row.latitude))
            \/ IsZero(arg.row.longitude)
            \/ IsZero(arg.row.latitude))

\* C6 amended: a row is rejected on coordinate grounds exactly when either
\* coordinate is unparseable (the conversion raises) or, both converting,
\* either is exactly zero (an absent coordinate reads as zero).
C6_RejectIfEitherUnparseable ==
    Returned("row") =>
        LET lon == arg.row.longitude
            lat == arg.row.latitude
        IN  /\ ret.outcome = "continue: except"
                <=> (Unparseable(lon) \/ Unparseable(lat))
            /\ ret.outcome = "continue: zero"
                <=> (/\ Parseable(lon) /\ Parseable(lat)
                     /\ (IsZero(lon) \/ IsZero(lat)))
            /\ ret.outcome \in {"continue: except", "continue: zero"}
                => ret.appended = << >>

\* A row with a parseable non-zero coordinate inside a boundary's range and
\* an unparseable one was rejected by the except branch.
C6_Witness ==
    /\ Returned("row")
    /\ arg.row.longitude = Text /\ arg.row.latitude = Num(3)
    /\ ret.outcome = "continue: except"
    /\ ret.appended = << >>

\* C5 as stated: every multipolygon text with N polygon parts parses to
\* exactly N rings, the k-th being the exterior ring of the k-th part with
\* its pairs in textual order, holes left out; a ring may have zero pairs.
C5_OneRingPerPart ==
    Returned("parse_wkt_multipolygon") =>
        /\ ret.raised = None
        /\ ret.rings = [k \in 1..Len(arg.parts) |-> Denoted(arg.parts[k][1])]

\* C5 amended: the result holds, in order, the exterior ring of every part
\* whose exterior ring has at least one coordinate pair, pairs in textual
\* order; holes never appear, a part whose exterior ring has no pair adds
\* nothing, and so every returned ring has at least one pair.  When every
\* exterior ring has a pair these are exactly N rings.
C5_OneRingPerNonEmptyPart ==
    Returned("parse_wkt_multipolygon") =>
        LET full == SelectSeq(arg.parts, LAMBDA q : q[1] # << >>)
        IN  /\ ret.raised = None
            /\ ret.rings = [k \in 1..Len(full) |-> Denoted(full[k][1])]
            /\ \A k \in 1..Len(ret.rings) : Len(ret.rings[k]) >= 1
            /\ (\A k \in 1..Len(arg.parts) : arg.parts[k][1] # << >>)
                 => Len(ret.rings) = Len(arg.parts)

\* Two parts, the first with a hole, every ring with pairs: two rings, the
\* two exterior rings.
C5_Witness ==
    /\ Returned("parse_wkt_multipolygon")
    /\ arg.parts = << <<Outer3, Hole2>>, <<Outer1>> >>
    /\ ret.rings = << << <<0 - 73980, 40675>>, <<0 - 73900, 40675>>,
                         <<0 - 73900, 41000>> >>,
                      << <<0 - 73900, 41000>> >> >>

\* C12 as stated: on every ring of fewer than three vertices (0, 1 or 2) and
\* every query point point_in_ring returns false and does not fail, and so
\* find_bid never returns the name of a boundary whose rings are all such
\* rings.
C12_DegenerateRingsNeverInside ==
    /\ (Returned("point_in_ring") /\ Len(arg.ring) < 3)
          => (ret.raised = None /\ ret.value = FALSE)
    /\ Returned("find_bid") =>
          \A k \in 1..Len(arg.boundaries) :
              (\A r \in 1..Len(arg.boundaries[k].rings) :
                   Len(arg.boundaries[k].rings[r]) < 3)
                => ret # arg.boundaries[k].name

\* C13: the bounding box never excludes a classifiable point: whenever
\* find_bid returns a name for (lon, lat), the point satisfies
\* minLon <= lon <= maxLon and minLat <= lat <= maxLat for the box that
\* bounding_box returns on the same boundary set, so the range filter of
\* fetch_pluto keeps it.
C13_BoxKeepsClassifiable ==
    (Returned("find_bid") /\ ret # None) =>
        where_clause(arg.lon, arg.lat, bounding_box(arg.boundaries))

\* A point classified by the second of two boundaries, outside the extent
\* of the first one, and kept by the filter.
C13_Witness ==
    /\ Returned("find_bid")
    /\ Len(arg.boundaries) = 2
    /\ ret = arg.boundaries[2].name
    /\ ~where_clause(arg.lon, arg.lat, bounding_box(<<arg.boundaries[1]>>))
    /\ where_clause(arg.lon, arg.lat, bounding_box(arg.boundaries))

\* A written ring is well formed when it has a pair and every pair has two
\* tokens that are numbers.
WellFormed(r) ==
    /\ r # << >>
    /\ \A i \in 1..Len(r) :
          /\ Len(r[i]) >= 2
          /\ r[i][1] \notin NonNumbers
          /\ r[i][2] \notin NonNumbers

\* C11 as stated: on a text with a malformed or empty ring (no pair, a pair
\* of fewer than two tokens, a token that is no number) the parser does not
\* raise; the part of that ring contributes no ring and the exterior rings
\* of the other parts are returned, in order.
C11_MalformedRingsSkipped ==
    Returned("parse_wkt_multipolygon") =>
        LET sound == SelectSeq(arg.parts, LAMBDA q : WellFormed(q[1]))
        IN  /\ ret.raised = None
            /\ ret.rings = [k \in 1..Len(sound) |-> Denoted(sound[k][1])]

IsDollars(v, n) == ~v.nan /\ v.cents = 100 * n

\* The amount shown is a nearest one: no further than half a unit from the
\* value.
Nearest(cents, shown, unit) == 2 * (shown * unit - cents) \in (0 - unit)..unit

\* C7 as stated: 0 and absent values give the dash, a value of at least
\* 1,000,000 millions with one decimal (1,500,000 gives $1.5M), a value from
\* 1,000 up to 999,999 thousands rounded to a whole number (2,500 gives
\* $3K), a value below 1,000 whole dollars.
C7_FormatRoundsHalfUp ==
    Returned("format_currency") =>
        LET v == arg.val
        IN  /\ (v.nan \/ v.cents = 0) <=> ret.text = DASH
            /\ (~v.nan /\ v.cents >= 100000000) =>
                  /\ ret.unit = "M" /\ Nearest(v.cents, ret.shown, 10000000)
            /\ IsDollars(v, 1500000) => ret.text = "$1.5M"
            /\ (~v.nan /\ v.cents >= 100000 /\ v.cents < 100000000) =>
                  /\ ret.unit = "K" /\ Nearest(v.cents, ret.shown, 100000)
            /\ IsDollars(v, 2500) => ret.text = "$3K"
            /\ (~v.nan /\ v.cents # 0 /\ v.cents < 100000) =>
                  /\ ret.unit = "$" /\ Nearest(v.cents, ret.shown, 100)

\* C7 amended: as stated, but the thousands are rounded to the nearest
\* whole number with a tie going to the even one: 2,500 gives $2K (and
\* 3,500 gives $4K).
C7_FormatRoundsHalfEven ==
    Returned("format_currency") =>
        LET v == arg.val
        IN  /\ (v.nan \/ v.cents = 0) <=> ret.text = DASH
            /\ (~v.nan /\ v.cents >= 100000000) =>
                  /\ ret.unit = "M" /\ Nearest(v.cents, ret.shown, 10000000)
            /\ IsDollars(v, 1500000) => ret.text = "$1.5M"
            /\ (~v.nan /\ v.cents >= 100000 /\ v.cents < 100000000) =>
                  /\ ret.unit = "K" /\ Nearest(v.cents, ret.shown, 100000)
                  /\ v.cents % 100000 = 50000 => ret.shown % 2 = 0
            /\ IsDollars(v, 2500) => ret.text = "$2K"
            /\ IsDollars(v, 3500) => ret.text = "$4K"
            /\ (~v.nan /\ v.cents # 0 /\ v.cents < 100000) =>
                  /\ ret.unit = "$" /\ Nearest(v.cents, ret.shown, 100)
                  /\ IsDollars(v, 12) => ret.text = "$12"

C7_Witness ==
    /\ Returned("format_currency")
    /\ IsDollars(arg.val, 2500)
    /\ ret.text = "$2K"
====
